---- MODULE Spec2Model ----
(***************************************************************************)
(* Verification and folding logic of the quantization dialect              *)
(* (tensorflow/compiler/mlir/quantization/ir/quant_ops.cc):                *)
(*   isValidQuantizationSpec, QuantizeRegionOp::verify,                    *)
(*   StatisticsOp::verify and StorageCastOp::fold.                         *)
(***************************************************************************)
EXTENDS Integers, Sequences, FiniteSets, TLC

VARIABLES
  \* isValidQuantizationSpec(quantSpec, expressed) and its returned value
  quantSpec, expressed, specResult,
  \* QuantizeRegionOp: operand/result types, spec attributes, verify() result
  operandTypes, input_specs, resultTypes, output_specs, regionResult,
  \* StatisticsOp: operand type, layerStats, axisStats and axis attributes,
  \* verify() result
  arg, layerStats, axisStats, axis, statsResult,
  \* the IR around StorageCastOp: the type of the block argument x (value 0),
  \* the operations (operation i defines value i), the erased operations,
  \* the value the terminator uses and the last fold() call with its result
  xType, ops, erased, ret, folded

vars == <<quantSpec, expressed, specResult,
          operandTypes, input_specs, resultTypes, output_specs, regionResult,
          arg, layerStats, axisStats, axis, statsResult,
          xType, ops, erased, ret, folded>>

checkerVars == <<quantSpec, expressed, specResult>>
regionVars == <<operandTypes, input_specs, resultTypes, output_specs,
                regionResult>>
statsVars == <<arg, layerStats, axisStats, axis, statsResult>>
foldVars == <<xType, ops, erased, ret, folded>>

(***************************************************************************)
(* Bounds                                                                  *)
(***************************************************************************)
MaxOperands == 2
MaxResults == 2
MaxRank == 3
MaxChain == 3

Min(a, b) == IF a < b THEN a ELSE b

SeqsUpTo(S, n) == UNION {[1..k -> S] : k \in 0..n}

(***************************************************************************)
(* Types and attributes.  A type is a scalar, a tensor or a vector; a      *)
(* scalar is either a primitive type (f32, f16, i8) or a quantized type    *)
(* whose expressed type is the primitive `base`; a container's element     *)
(* type is the scalar with the same `quant` and `base`.                    *)
(***************************************************************************)
Prim(b) == [shape |-> "scalar", quant |-> FALSE, base |-> b]
Quant(b) == [shape |-> "scalar", quant |-> TRUE, base |-> b]
TensorOf(t) == [t EXCEPT !.shape = "tensor"]
VectorOf(t) == [t EXCEPT !.shape = "vector"]

isContainer(t) == t.shape \in {"tensor", "vector"}
isTensor(t) == t.shape = "tensor"
isVector(t) == t.shape = "vector"
isQuantizedType(t) == t.shape = "scalar" /\ t.quant
getElementType(t) == [t EXCEPT !.shape = "scalar"]
getExpressedType(q) == Prim(q.base)

TypeAttr(t) == [attr |-> "TypeAttr", value |-> t]
UnitAttr == [attr |-> "UnitAttr", value |-> Prim("none")]

\* QuantizedType::isCompatibleExpressedType (quant_types.h, not in this file)
isCompatibleExpressedType(q, candidate) ==
  IF isContainer(candidate)
    THEN getElementType(candidate) = getExpressedType(q)
    ELSE candidate = getExpressedType(q)

\* the primitive-type comparison is consulted before the quantized branch
isValidQuantizationSpec_PlainFirst(spec, expr) ==
  IF spec.attr = "TypeAttr"
    THEN LET T == spec.value IN
         IF isContainer(T) THEN FALSE
         ELSE IF isTensor(expr) THEN T = getElementType(expr)
         ELSE IF isVector(expr) THEN T = getElementType(expr)
         ELSE IF isQuantizedType(T) THEN isCompatibleExpressedType(T, expr)
         ELSE FALSE
    ELSE FALSE

\* static bool isValidQuantizationSpec(Attribute quantSpec, Type expressed)
isValidQuantizationSpec(spec, expr) ==
  IF spec.attr = "TypeAttr"
    THEN LET T == spec.value IN
         IF isContainer(T) THEN FALSE
         ELSE IF isQuantizedType(T) THEN isCompatibleExpressedType(T, expr)
         ELSE IF isTensor(expr) THEN T = getElementType(expr)
         ELSE IF isVector(expr) THEN T = getElementType(expr)
         ELSE FALSE
    ELSE FALSE

(***************************************************************************)
(* Inputs of the specification checker                                     *)
(***************************************************************************)
Scalars == {Prim("f32"), Prim("f16"), Prim("i8"), Quant("f32"), Quant("f16")}
AllTypes == Scalars \cup {TensorOf(t) : t \in Scalars}
                    \cup {VectorOf(t) : t \in Scalars}
AllAttrs == {TypeAttr(t) : t \in AllTypes} \cup {UnitAttr}

IdleChecker ==
  /\ quantSpec = UnitAttr
  /\ expressed = Prim("none")
  /\ specResult = <<>>

\* one call of isValidQuantizationSpec
CheckSpec ==
  /\ specResult = <<>>
  /\ specResult' = <<isValidQuantizationSpec(quantSpec, expressed)>>
  /\ UNCHANGED <<quantSpec, expressed>>
  /\ UNCHANGED <<regionVars, statsVars, foldVars>>

(***************************************************************************)
(* QuantizeRegionOp::verify                                                *)
(***************************************************************************)
RegionTypes == {Prim("f32"), TensorOf(Prim("f32"))}
RegionAttrs == {TypeAttr(Quant("f32")), TypeAttr(Prim("f32")),
                TypeAttr(Prim("f16"))}

Verdict(k, s, t) == [kind |-> k, spec |-> s, type |-> t]
success == Verdict("success", <<>>, <<>>)

\* only the operand count is compared
ArityMatches_OperandsOnly(ots, ins, rts, outs) ==
  Len(ots) = Len(ins)

\* getNumOperands() != input_specs().size() ||
\* getNumResults() != output_specs().size()
ArityMatches(ots, ins, rts, outs) ==
  Len(ots) = Len(ins) /\ Len(rts) = Len(outs)

\* the last failing pair of the zip is reported
FirstInvalid_Last(types, specs) ==
  LET n == Min(Len(types), Len(specs))
      bad == {i \in 1..n : ~isValidQuantizationSpec(specs[i], types[i])}
  IN IF bad = {} THEN 0 ELSE CHOOSE i \in bad : \A j \in bad : j <= i

\* for (auto p : llvm::zip(types, specs)) if (!isValidQuantizationSpec) return
\* index of the pair the loop returns at, 0 when the loop runs to its end
FirstInvalid(types, specs) ==
  LET n == Min(Len(types), Len(specs))
      bad == {i \in 1..n : ~isValidQuantizationSpec(specs[i], types[i])}
  IN IF bad = {} THEN 0 ELSE CHOOSE i \in bad : \A j \in bad : i <= j

QuantizeRegionOp_verify(ots, ins, rts, outs) ==
  IF ~ArityMatches(ots, ins, rts, outs)
    THEN Verdict("ArityMismatch", <<>>, <<>>)
  ELSE LET i == FirstInvalid(ots, ins) IN
    IF i # 0 THEN Verdict("IncompatibleInput", <<ins[i]>>, <<ots[i]>>)
    ELSE LET o == FirstInvalid(rts, outs) IN
      IF o # 0 THEN Verdict("IncompatibleOutput", <<outs[o]>>, <<rts[o]>>)
      ELSE success

IdleRegion ==
  /\ operandTypes = <<>>
  /\ input_specs = <<>>
  /\ resultTypes = <<>>
  /\ output_specs = <<>>
  /\ regionResult = <<>>

VerifyRegion ==
  /\ regionResult = <<>>
  /\ regionResult' = <<QuantizeRegionOp_verify(operandTypes, input_specs,
                                               resultTypes, output_specs)>>
  /\ UNCHANGED <<operandTypes, input_specs, resultTypes, output_specs>>
  /\ UNCHANGED <<checkerVars, statsVars, foldVars>>

(***************************************************************************)
(* Fixed-width integers.  An int64_t is 8 base-256 digits, least           *)
(* significant first, in two's complement; an int is 4 digits.             *)
(***************************************************************************)
FromNat(n, w) ==
  LET RECURSIVE digits(_, _)
      digits(m, k) == IF k = 0 THEN <<>>
                      ELSE <<m % 256>> \o digits(m \div 256, k - 1)
  IN digits(n, w)

I64(n) == FromNat(n, 8)

\* a * d modulo 256^Len(a), for a small non-negative d
MulSmall(a, d) ==
  LET RECURSIVE mul(_, _)
      mul(i, c) == IF i > Len(a) THEN <<>>
                   ELSE LET p == a[i] * d + c
                        IN <<p % 256>> \o mul(i + 1, p \div 256)
  IN mul(1, 0)

\* conversion int64_t -> int keeps the low 32 bits
ToInt(v) == SubSeq(v, 1, 4)

\* conversion int -> int64_t extends the sign
SExt64(a) == a \o [i \in 1..4 |-> IF a[4] >= 128 THEN 255 ELSE 0]

\* std::multiplies<int64_t>()(acc, dim)
multiplies_int64(x, dim) == MulSmall(x, dim)

(***************************************************************************)
(* StatisticsOp::verify                                                    *)
(***************************************************************************)
isFloatType(e) == e \in {"f32", "f16"}

\* the shape check comes before the element type check
VerifyLayerStats_ShapeFirst(ls) ==
  IF Len(ls.shape) # 1 \/ ls.shape[1] # 2 THEN "LayerStatsBadShape"
  ELSE IF ~isFloatType(ls.elem) THEN "LayerStatsNotFloat"
  ELSE "ok"

\* "Verify layerStats attribute."
VerifyLayerStats(ls) ==
  IF ~isFloatType(ls.elem) THEN "LayerStatsNotFloat"
  ELSE IF Len(ls.shape) # 1 \/ ls.shape[1] # 2 THEN "LayerStatsBadShape"
  ELSE "ok"

\* the accumulation starts one element after the axis
argSliceSize_AfterAxis(shape, ax) ==
  LET RECURSIVE accumulate(_, _)
      accumulate(first, acc) ==
        IF first > Len(shape) THEN acc
        ELSE accumulate(first + 1,
                        ToInt(multiplies_int64(SExt64(acc), shape[first])))
  IN accumulate(ax + 2, FromNat(1, 4))

\* std::accumulate(std::next(shape.begin(), *axis()), shape.end(), 1,
\*                 std::multiplies<int64_t>())
\* the accumulator has the type of the initial value 1, an int
argSliceSize(shape, ax) ==
  LET RECURSIVE accumulate(_, _)
      accumulate(first, acc) ==
        IF first > Len(shape) THEN acc
        ELSE accumulate(first + 1,
                        ToInt(multiplies_int64(SExt64(acc), shape[first])))
  IN accumulate(ax + 1, FromNat(1, 4))

\* axisStatsType.getDimSize(0) != argSliceSize; std::next past shape.end()
\* is undefined, the comparison can then go either way
SliceSizeDiffers(shape, ax, dim0) ==
  IF ax <= Len(shape)
    THEN {dim0 # SExt64(argSliceSize(shape, ax))}
    ELSE {TRUE, FALSE}

\* the element type and shape of axisStats are checked before the axis
VerifyAxisStats_TypeFirst(shape, as, ax) ==
  IF as = <<>> THEN {"ok"}
  ELSE IF ~isFloatType(as[1].elem) THEN {"AxisStatsNotFloat"}
  ELSE IF Len(as[1].shape) # 2 THEN {"AxisStatsBadShape"}
  ELSE IF as[1].shape[2] # I64(2) THEN {"AxisStatsBadShape"}
  ELSE IF ax = <<>> THEN {"MissingAxis"}
  ELSE {IF d THEN "AxisStatsBadShape" ELSE "ok" :
          d \in SliceSizeDiffers(shape, ax[1], as[1].shape[1])}
       \cup (IF ax[1] > Len(shape) THEN {"Crash"} ELSE {})

\* "Verify axisStats (optional) attribute."
VerifyAxisStats(shape, as, ax) ==
  IF as = <<>> THEN {"ok"}
  ELSE IF ax = <<>> THEN {"MissingAxis"}
  ELSE (IF ~isFloatType(as[1].elem) THEN {"AxisStatsNotFloat"}
        ELSE IF Len(as[1].shape) # 2 THEN {"AxisStatsBadShape"}
        ELSE IF as[1].shape[2] # I64(2) THEN {"AxisStatsBadShape"}
        ELSE {IF d THEN "AxisStatsBadShape" ELSE "ok" :
                d \in SliceSizeDiffers(shape, ax[1], as[1].shape[1])})
       \cup (IF ax[1] > Len(shape) THEN {"Crash"} ELSE {})

\* the set of results verify() can return on these inputs
StatisticsOp_verify(a, ls, as, ax) ==
  IF ~a.tensor THEN {"NonTensorArg"}
  ELSE IF VerifyLayerStats(ls) # "ok" THEN {VerifyLayerStats(ls)}
  ELSE {IF r = "ok" THEN "success" ELSE r :
          r \in VerifyAxisStats(a.shape, as, ax)}

IdleStats ==
  /\ arg = [tensor |-> FALSE, shape |-> <<>>]
  /\ layerStats = [elem |-> "f32", shape |-> <<>>]
  /\ axisStats = <<>>
  /\ axis = <<>>
  /\ statsResult = <<>>

VerifyStats ==
  /\ statsResult = <<>>
  /\ \E r \in StatisticsOp_verify(arg, layerStats, axisStats, axis) :
       statsResult' = <<r>>
  /\ UNCHANGED <<arg, layerStats, axisStats, axis>>
  /\ UNCHANGED <<checkerVars, regionVars, foldVars>>

(***************************************************************************)
(* Inputs of StatisticsOp::verify                                          *)
(***************************************************************************)
Dims == {4, 5, 6, 65537}

\* the product of shape[from..Len(shape)] in 96 bits, where it is exact
ExactProduct(shape, from) ==
  LET RECURSIVE prod(_)
      prod(i) == IF i > Len(shape) THEN FromNat(1, 12)
                 ELSE MulSmall(prod(i + 1), shape[i])
  IN prod(from)

FitsInt64(p) == p[8] < 128 /\ \A i \in 9..12 : p[i] = 0
FitsInt32(p) == p[4] < 128 /\ \A i \in 5..12 : p[i] = 0
Low64(p) == SubSeq(p, 1, 8)
Wrap32(p) == SExt64(SubSeq(p, 1, 4))

\* dimension-0 sizes tried for axisStats: the suffix products of the operand
\* shape, their 32-bit wrap-arounds and the plain dimensions
Dim0Candidates(shape) ==
  LET sizes == {Low64(ExactProduct(shape, i)) : i \in 1..(Len(shape) + 1)}
               \cup {Wrap32(ExactProduct(shape, i)) : i \in 1..(Len(shape) + 1)}
               \cup {I64(d) : d \in Dims}
  IN {n \in sizes : n[8] < 128}

AxisStatsTypes(shape) ==
  LET shapes == {<<n, I64(2)>> : n \in Dim0Candidates(shape)}
                \cup {<<I64(2)>>, <<I64(1), I64(3)>>,
                      <<I64(1), I64(2), I64(2)>>}
  IN {[elem |-> e, shape |-> s] : e \in {"f32", "i32"}, s \in shapes}

LayerStatsTypes ==
  {[elem |-> "f32", shape |-> s] : s \in {<<2>>, <<3>>, <<>>, <<2, 2>>}}
  \cup {[elem |-> "i32", shape |-> s] : s \in {<<2>>, <<3>>}}

ArgTypes ==
  {[tensor |-> TRUE, shape |-> s] : s \in SeqsUpTo(Dims, MaxRank)}
  \cup {[tensor |-> FALSE, shape |-> <<>>]}

(***************************************************************************)
(* StorageCastOp::fold                                                     *)
(***************************************************************************)
FoldTypes == {"i8", "!quant.uniform<i8:f32>"}

\* Value::getType()
getType(o, xt, v) == IF v = 0 THEN xt ELSE o[v].type

\* Value::getDefiningOp<StorageCastOp>(): null for a block argument and for
\* the result of another kind of operation
getDefiningScast(o, v) ==
  IF v # 0 /\ o[v].kind = "scast" THEN <<v>> ELSE <<>>

\* the operand type of the source cast is not compared
StorageCastOp_fold_NoTypeCheck(i) ==
  LET srcScastOp == getDefiningScast(ops, ops[i].arg)
  IN IF srcScastOp = <<>> THEN <<>>
     ELSE <<ops[srcScastOp[1]].arg>>

\* the chain of source casts is followed upwards for as long as the value
\* found has the result type
StorageCastOp_fold_Chase(i) ==
  LET RECURSIVE chase(_)
      chase(v) ==
        LET c == getDefiningScast(ops, v)
        IN IF c # <<>> /\ getType(ops, xType, ops[c[1]].arg) = ops[i].type
             THEN chase(ops[c[1]].arg)
             ELSE v
      srcScastOp == getDefiningScast(ops, ops[i].arg)
  IN IF srcScastOp = <<>>
        \/ getType(ops, xType, ops[srcScastOp[1]].arg) # ops[i].type
       THEN <<>>
       ELSE <<chase(ops[srcScastOp[1]].arg)>>

\* OpFoldResult StorageCastOp::fold: <<>> is the null OpFoldResult
StorageCastOp_fold(i) ==
  LET srcScastOp == getDefiningScast(ops, ops[i].arg)
  IN IF srcScastOp = <<>>
        \/ getType(ops, xType, ops[srcScastOp[1]].arg) # ops[i].type
       THEN <<>>
       ELSE <<ops[srcScastOp[1]].arg>>

\* number of storage casts on the path from value v back to x
RECURSIVE CastsOnPath(_, _)
CastsOnPath(o, v) ==
  IF v = 0 THEN 0
  ELSE (IF o[v].kind = "scast" THEN 1 ELSE 0) + CastsOnPath(o, o[v].arg)

\* value v is computed from value w
RECURSIVE DependsOn(_, _, _)
DependsOn(o, v, w) ==
  v # 0 /\ (o[v].arg = w \/ DependsOn(o, o[v].arg, w))

IdleFold ==
  /\ xType = "i8"
  /\ ops = <<>>
  /\ erased = {}
  /\ ret = 0
  /\ folded = [op |-> 0, result |-> <<>>]

\* the host calls fold() on a storage cast; a returned value replaces every
\* use of the cast's result and the cast is erased
ApplyFold(i) ==
  /\ i \notin erased
  /\ ops[i].kind = "scast"
  /\ LET r == StorageCastOp_fold(i) IN
       /\ folded' = [op |-> i, result |-> r]
       /\ IF r = <<>>
            THEN UNCHANGED <<ops, erased, ret>>
            ELSE /\ ops' = [j \in 1..Len(ops) |->
                              IF j \notin erased /\ ops[j].arg = i
                                THEN [ops[j] EXCEPT !.arg = r[1]]
                                ELSE ops[j]]
                 /\ ret' = IF ret = i THEN r[1] ELSE ret
                 /\ erased' = erased \cup {i}
  /\ UNCHANGED xType
  /\ UNCHANGED <<checkerVars, regionVars, statsVars>>

\* operation sequences in which every operand is defined before its use
OpSeqs(n) ==
  {o \in [1..n -> [kind : {"scast", "other"}, arg : 0..(n - 1),
                   type : FoldTypes]] :
     \A i \in 1..n : o[i].arg < i}

(***************************************************************************)
(* Specifications                                                          *)
(***************************************************************************)
InitChecker ==
  /\ quantSpec \in AllAttrs
  /\ expressed \in AllTypes
  /\ specResult = <<>>
  /\ IdleRegion
  /\ IdleStats
  /\ IdleFold

NextChecker == CheckSpec

SpecChecker == InitChecker /\ [][NextChecker]_vars

InitRegion ==
  /\ operandTypes \in SeqsUpTo(RegionTypes, MaxOperands)
  /\ input_specs \in SeqsUpTo(RegionAttrs, MaxOperands)
  /\ resultTypes \in SeqsUpTo(RegionTypes, MaxResults)
  /\ output_specs \in SeqsUpTo(RegionAttrs, MaxResults)
  /\ regionResult = <<>>
  /\ IdleChecker
  /\ IdleStats
  /\ IdleFold

NextRegion == VerifyRegion

SpecRegion == InitRegion /\ [][NextRegion]_vars

InitStats ==
  /\ arg \in ArgTypes
  /\ layerStats \in LayerStatsTypes
  /\ axisStats \in {<<>>} \cup {<<t>> : t \in AxisStatsTypes(arg.shape)}
  /\ axis \in {<<>>} \cup {<<n>> : n \in 0..(Len(arg.shape) + 1)}
  /\ statsResult = <<>>
  /\ IdleChecker
  /\ IdleRegion
  /\ IdleFold

NextStats == VerifyStats

SpecStats == InitStats /\ [][NextStats]_vars

InitFold ==
  /\ xType \in FoldTypes
  /\ ops \in UNION {OpSeqs(n) : n \in 1..MaxChain}
  /\ erased = {}
  /\ ret \in 0..Len(ops)
  /\ folded = [op |-> 0, result |-> <<>>]
  /\ IdleChecker
  /\ IdleRegion
  /\ IdleStats

NextFold == \E i \in 1..Len(ops) : ApplyFold(i)

SpecFold == InitFold /\ [][NextFold]_vars

\* a call of fold() that returns a value
FireFold == \E i \in 1..Len(ops) : ApplyFold(i) /\ StorageCastOp_fold(i) # <<>>

\* the host re-applies the folder for as long as some cast folds
SpecFoldFair == SpecFold /\ WF_vars(FireFold)

(***************************************************************************)
(* Properties                                                              *)
(***************************************************************************)
RegionVerified == regionResult # <<>>
StatsVerified == statsResult # <<>>

InvalidPairs(types, specs) ==
  {i \in 1..Min(Len(types), Len(specs)) :
     ~isValidQuantizationSpec(specs[i], types[i])}

\* C1: QuantizeRegionOp::verify succeeds if and only if the operand count
\* equals the input-spec count, the result count equals the output-spec
\* count, and isValidQuantizationSpec holds for every (operand type, input
\* spec) pair and every (result type, output spec) pair; so a single
\* incompatible pair in an otherwise valid operation makes it fail.
C1_VerifyIffAllValid ==
  RegionVerified =>
    ((regionResult[1].kind = "success") <=>
       /\ Len(operandTypes) = Len(input_specs)
       /\ Len(resultTypes) = Len(output_specs)
       /\ \A i \in 1..Len(operandTypes) :
            isValidQuantizationSpec(input_specs[i], operandTypes[i])
       /\ \A i \in 1..Len(resultTypes) :
            isValidQuantizationSpec(output_specs[i], resultTypes[i]))

\* an operation with matching counts and exactly one incompatible pair,
\* an output pair, has been verified and rejected
C1_Witness ==
  /\ RegionVerified
  /\ Len(operandTypes) = 2 /\ Len(input_specs) = 2
  /\ Len(resultTypes) = 2 /\ Len(output_specs) = 2
  /\ InvalidPairs(operandTypes, input_specs) = {}
  /\ Cardinality(InvalidPairs(resultTypes, output_specs)) = 1
  /\ regionResult[1].kind # "success"

\* C8: QuantizeRegionOp::verify reports an arity mismatch before any
\* specification is checked; otherwise it reports the lowest-index
\* incompatible input pair (its spec and operand type); an output error is
\* reported only when every input pair is valid, and names the lowest-index
\* incompatible output pair.
C8_ErrorOrder ==
  RegionVerified =>
    LET r == regionResult[1]
        arityOk == /\ Len(operandTypes) = Len(input_specs)
                   /\ Len(resultTypes) = Len(output_specs)
        badIn == InvalidPairs(operandTypes, input_specs)
        badOut == InvalidPairs(resultTypes, output_specs)
        lowest(S) == CHOOSE i \in S : \A j \in S : i <= j
    IN /\ ~arityOk => r.kind = "ArityMismatch"
       /\ (arityOk /\ badIn # {}) =>
            /\ r.kind = "IncompatibleInput"
            /\ r.spec = <<input_specs[lowest(badIn)]>>
            /\ r.type = <<operandTypes[lowest(badIn)]>>
       /\ (arityOk /\ badIn = {} /\ badOut # {}) =>
            /\ r.kind = "IncompatibleOutput"
            /\ r.spec = <<output_specs[lowest(badOut)]>>
            /\ r.type = <<resultTypes[lowest(badOut)]>>
       /\ r.kind = "IncompatibleOutput" => (arityOk /\ badIn = {})

\* two different incompatible input pairs and an incompatible output pair:
\* the first input pair is the one reported
C8_Witness ==
  /\ RegionVerified
  /\ Len(operandTypes) = 2 /\ Len(input_specs) = 2
  /\ Len(resultTypes) = Len(output_specs)
  /\ InvalidPairs(operandTypes, input_specs) = {1, 2}
  /\ <<input_specs[1], operandTypes[1]>> # <<input_specs[2], operandTypes[2]>>
  /\ InvalidPairs(resultTypes, output_specs) # {}
  /\ regionResult[1].kind = "IncompatibleInput"
  /\ regionResult[1].spec = <<input_specs[1]>>
  /\ regionResult[1].type = <<operandTypes[1]>>

isPlainSpec(a) ==
  a.attr = "TypeAttr" /\ ~isContainer(a.value) /\ ~a.value.quant

\* C3: for a specification carrying a plain (non-quantized, non-container)
\* type T, isValidQuantizationSpec accepts iff T equals the element type of
\* `expressed` when `expressed` is a tensor or vector, and iff T equals
\* `expressed` when `expressed` is a scalar type.
C3_PlainSpec ==
  (specResult # <<>> /\ isPlainSpec(quantSpec)) =>
    (specResult[1] <=>
       IF isContainer(expressed)
         THEN quantSpec.value = getElementType(expressed)
         ELSE quantSpec.value = expressed)

\* C5: for a specification carrying a quantized type T,
\* isValidQuantizationSpec returns exactly
\* T.isCompatibleExpressedType(expressed), for a scalar, tensor or vector
\* `expressed`; the plain comparison with the element type is not consulted.
C5_QuantizedSpec ==
  (/\ specResult # <<>>
   /\ quantSpec.attr = "TypeAttr"
   /\ isQuantizedType(quantSpec.value)) =>
    (specResult[1] <=>
       isCompatibleExpressedType(quantSpec.value, expressed))

\* a quantized specification accepted for a tensor of its expressed type,
\* whose element type differs from the specification's type
C5_Witness ==
  /\ specResult = <<TRUE>>
  /\ quantSpec = TypeAttr(Quant("f32"))
  /\ expressed = TensorOf(Prim("f32"))
  /\ quantSpec.value # getElementType(expressed)

LayerStatsValid ==
  isFloatType(layerStats.elem) /\ layerStats.shape = <<2>>

\* C7: with a tensor operand and no axis statistics, StatisticsOp::verify
\* succeeds iff the layer statistics have a floating-point element type and
\* shape [2]; a non-float element type fails with LayerStatsNotFloat
\* (checked first), a float element type with another rank or size fails
\* with LayerStatsBadShape.
C7_LayerStats ==
  (StatsVerified /\ arg.tensor /\ axisStats = <<>>) =>
    /\ (statsResult[1] = "success") <=> LayerStatsValid
    /\ ~isFloatType(layerStats.elem) =>
         statsResult[1] = "LayerStatsNotFloat"
    /\ (isFloatType(layerStats.elem) /\ layerStats.shape # <<2>>) =>
         statsResult[1] = "LayerStatsBadShape"

\* integer layer statistics of shape [3]: both checks would fail, the
\* element type is the one reported
C7_Witness ==
  /\ StatsVerified /\ arg.tensor /\ axisStats = <<>>
  /\ layerStats = [elem |-> "i32", shape |-> <<3>>]
  /\ statsResult = <<"LayerStatsNotFloat">>

\* C6: with a tensor operand and valid layer statistics, axis statistics
\* without an axis index always fail with MissingAxis, whatever the element
\* type and shape of the axis statistics.
C6_MissingAxisFirst ==
  (/\ StatsVerified /\ arg.tensor /\ LayerStatsValid
   /\ axisStats # <<>> /\ axis = <<>>) =>
    statsResult[1] = "MissingAxis"

\* axis statistics with an integer element type and a rank-1 shape, and no
\* axis: MissingAxis is reported
C6_Witness ==
  /\ StatsVerified /\ arg.tensor /\ LayerStatsValid
  /\ axis = <<>>
  /\ axisStats = <<[elem |-> "i32", shape |-> <<I64(2)>>]>>
  /\ statsResult = <<"MissingAxis">>

\* axis statistics [N,2] of floats on a verified tensor operand with valid
\* layer statistics and an axis index within 0..rank
AxisStatsChecked ==
  /\ StatsVerified /\ arg.tensor /\ LayerStatsValid
  /\ axisStats # <<>> /\ axis # <<>>
  /\ axis[1] <= Len(arg.shape)
  /\ isFloatType(axisStats[1].elem)
  /\ Len(axisStats[1].shape) = 2
  /\ axisStats[1].shape[2] = I64(2)

\* C2 as stated: the required dimension-0 size of the axis statistics is the
\* product of the operand shape's dimensions strictly after the axis index
\* (empty product = 1), here for shapes whose products all fit in 32 bits.
C2_SliceAfterAxis ==
  (AxisStatsChecked /\ FitsInt32(ExactProduct(arg.shape, 1))) =>
    ((statsResult[1] = "success") <=>
       axisStats[1].shape[1] = Low64(ExactProduct(arg.shape, axis[1] + 2)))

\* C2 amended: the required dimension-0 size is the product of the operand
\* shape's dimensions from the axis index on (indices axis .. rank-1, empty
\* product = 1 for axis = rank), reduced to a signed 32-bit value; any other
\* size fails with AxisStatsBadShape.
C2_SliceFromAxis ==
  AxisStatsChecked =>
    IF axisStats[1].shape[1] = Wrap32(ExactProduct(arg.shape, axis[1] + 1))
      THEN statsResult[1] = "success"
      ELSE statsResult[1] = "AxisStatsBadShape"

\* shape [4,5,6], axis 1: axis statistics of shape [30,2] are accepted
C2_Witness ==
  /\ AxisStatsChecked
  /\ arg.shape = <<4, 5, 6>>
  /\ axis = <<1>>
  /\ axisStats[1].shape = <<I64(30), I64(2)>>
  /\ statsResult = <<"success">>

\* C10: the slice size compared with the axis statistics' dimension-0 size
\* is the exact product of the selected dimensions whenever that product
\* fits in a signed 64-bit integer: the true product is accepted and every
\* other size is rejected.
C10_ExactProduct ==
  (AxisStatsChecked /\ FitsInt64(ExactProduct(arg.shape, axis[1] + 1))) =>
    ((statsResult[1] = "success") <=>
       axisStats[1].shape[1] = Low64(ExactProduct(arg.shape, axis[1] + 1)))

FoldCalled == folded.op # 0

\* C4: StorageCastOp::fold returns the inner operation's operand if and only
\* if the operand is the result of another StorageCastOp whose operand type
\* equals the outer result type; in every other case it returns no value.
C4_FoldIff ==
  FoldCalled =>
    LET i == folded.op
        a == ops[i].arg
        inverse == /\ a # 0
                   /\ ops[a].kind = "scast"
                   /\ getType(ops, xType, ops[a].arg) = ops[i].type
    IN IF inverse THEN folded.result = <<ops[a].arg>>
                  ELSE folded.result = <<>>

\* a cast of a cast folded to the block argument x, and the casts invert
\* each other
C4_Witness ==
  /\ FoldCalled
  /\ folded.result = <<0>>
  /\ ops[folded.op].arg # 0
  /\ ops[ops[folded.op].arg].kind = "scast"
  /\ ops[folded.op].type = xType

\* a call of fold() that returned a value and was applied by the host
FoldFired == folded'.result # <<>> /\ erased' # erased

\* no live storage cast folds any more
FoldFixpoint ==
  \A i \in 1..Len(ops) :
    (i \notin erased /\ ops[i].kind = "scast") => StorageCastOp_fold(i) = <<>>

\* C9: fold is a single-step rule: when it fires on a cast ck it returns
\* exactly the operand of ck's defining cast, a value of ck's result type,
\* and every application strictly reduces the number of casts on the paths
\* through ck (and the number of casts in the IR); re-application by the
\* host therefore ends in an IR where no cast folds.
C9_SingleStep ==
  /\ [][FoldFired =>
          LET i == folded'.op
              v == folded'.result[1]
          IN /\ v = ops[ops[i].arg].arg
             /\ getType(ops, xType, v) = ops[i].type
             /\ CastsOnPath(ops, v) < CastsOnPath(ops, i)
             /\ ret = i => CastsOnPath(ops', ret') < CastsOnPath(ops, ret)
             /\ \A u \in 1..Len(ops) :
                  (u \notin erased' /\ DependsOn(ops, u, i)) =>
                    CastsOnPath(ops', u) < CastsOnPath(ops, u)
             /\ Cardinality(erased') = Cardinality(erased) + 1
       ]_vars
  /\ <>[]FoldFixpoint

\* fold fired on the third cast of a chain whose values all have the same
\* type: it returned the first cast's result, not x
C9_Witness ==
  /\ FoldCalled
  /\ folded.result # <<>>
  /\ folded.result[1] # 0
  /\ ops[folded.result[1]].kind = "scast"
  /\ getType(ops, xType, ops[folded.result[1]].arg) = ops[folded.op].type
  /\ ret = folded.result[1]

====
